---- MODULE Spec2Model ----
(***************************************************************************)
(* A model of the dialogue translator (src/app/ui/main_window.py): the     *)
(* capture worker (recording_worker), the UI thread's handlers             *)
(* (toggle_recording, update_ui, display_message, change_max_messages,     *)
(* clear_dialog), the message queue between them and the dialogue history. *)
(*                                                                         *)
(* Threads interleave at the granularity of the steps below.  A worker's   *)
(* step runs from one blocking call (listen, recognition, translation)     *)
(* to the next; a UI handler is one step, except that a handler that       *)
(* joins the worker thread is split at the join.                           *)
(*                                                                         *)
(* Characters that are not ASCII are written as names ("cyr_pe" is the     *)
(* Cyrillic letter pe, "e_acute" is e with an acute accent).               *)
(***************************************************************************)
EXTENDS Naturals, Sequences, FiniteSets, TLC

VARIABLES
    is_recording,           \* self.is_recording
    should_stop_recording,  \* self.should_stop_recording (threading.Event): TRUE when set
    recording_thread,       \* self.recording_thread: a worker, or NoThread for None
    is_listening,           \* self.audio_stats['is_listening']
    ui_pc,                  \* where the UI thread is: "idle", or inside a join
    pc,                     \* pc[w]: where worker w is in recording_worker
    consecutive_errors,     \* consecutive_errors[w]: the worker's local counter
    expired,                \* expired[w]: time() - start_time exceeds config['record_duration']
    elapsed_over,           \* elapsed_over[w]: the iteration's `elapsed` exceeds record_duration
    audio,                  \* audio[w]: the buffer returned by listen
    rec_langs,              \* rec_langs[w]: <<lang1_trans, lang2_trans>> read by recognize_audio
    start_langs,            \* start_langs[w]: the language pair when w was started
    text,                   \* text[w]: the recognized text handed to process_recognized_text
    detected_lang,          \* detected_lang[w]
    lang1_combo,            \* the language selected in self.lang1_combo (as its code)
    lang2_combo,            \* the language selected in self.lang2_combo
    message_queue,          \* self.message_queue (queue.Queue)
    pending,                \* pending[p]: the events producer p has put and update_ui has not yet got
    dialogue_history,       \* self.dialogue_history
    chat_layout,            \* the message widgets of self.chat_widget, oldest first
    speaker_stats,          \* self.speaker_stats
    max_messages,           \* self.config['max_messages']
    inserted,               \* the messages display_message was called with since the history was last empty
    clock,                  \* the number of DialogueMessage objects created (their timestamp)
    feed,                   \* what the microphone and the recognition service will answer, in order
    fed,                    \* the answers given since a worker thread was last started
    pauses,                 \* the recovery pauses (time.sleep(2)) made since then
    tts_pc,                 \* where the synthesis worker (elevenlabs_tts_worker) is
    is_playing_tts,         \* self.is_playing_tts
    current_tts_file,       \* self.current_tts_file: TRUE when it names a temporary file
    config,                 \* self.config: enable_tts, auto_play_tts, and whether elevenlabs_api_key is set
    auto_spoken,            \* the calls of speak_text made by process_recognized_text, in order
    translation,            \* translation[w]: the call of translate_with_google_api in w's current iteration
    slept,                  \* slept[w]: tenths of a second w slept (time.sleep) at the end of its last iteration
    call,                   \* a call of one of the program's functions on its own: the function and its arguments
    result                  \* what that call returned, once it has

vars == << is_recording, should_stop_recording, recording_thread, is_listening, ui_pc,
           pc, consecutive_errors, expired, elapsed_over, audio, rec_langs, start_langs,
           text, detected_lang, lang1_combo, lang2_combo, message_queue, pending,
           dialogue_history, chat_layout, speaker_stats, max_messages, inserted, clock,
           feed, fed, pauses, tts_pc, is_playing_tts, current_tts_file, config,
           auto_spoken, translation, slept, call, result >>

loop_vars == << pc, consecutive_errors, expired, elapsed_over, audio, rec_langs,
                start_langs, text, detected_lang, translation, slept >>
flag_vars == << is_recording, should_stop_recording, recording_thread, is_listening >>
lang_vars == << lang1_combo, lang2_combo >>
history_vars == << dialogue_history, chat_layout, speaker_stats, inserted >>
feed_vars == << feed, fed >>
tts_vars == << tts_pc, is_playing_tts, current_tts_file, config, auto_spoken >>
call_vars == << call, result >>

----------------------------------------------------------------------------
(* Bounds of the model *)

MaxWorkers == 2     \* worker threads that can be alive at once
MaxQueue == 0       \* an iteration starts only while at most this many events wait
MaxMax == 2         \* the largest configured max_messages
FeedLen == 2        \* the length of a feed in the default specification
MaxClock == 4       \* clear_dialog and system messages stop at this many messages created
MaxPieces == 2      \* a text given to detect_language_from_text is made of at most this many pieces

(* Program constants *)

max_consecutive_errors == 5

NoThread == 0
UiThread == 0
Workers == 1..MaxWorkers
TtsThread == MaxWorkers + 1
Producers == 0..(MaxWorkers + 1)

Langs == {"ru", "en"}
AllLangs == {"ru", "en", "es", "fr", "de"}

----------------------------------------------------------------------------
(* Texts and language detection *)

Cyrillic ==
    {"cyr_a", "cyr_be", "cyr_ve", "cyr_ghe", "cyr_de", "cyr_ie",
     "cyr_io", "cyr_zhe", "cyr_ze", "cyr_i", "cyr_short_i", "cyr_ka",
     "cyr_el", "cyr_em", "cyr_en", "cyr_o", "cyr_pe", "cyr_er", "cyr_es",
     "cyr_te", "cyr_u", "cyr_ef", "cyr_ha", "cyr_tse", "cyr_che",
     "cyr_sha", "cyr_shcha", "cyr_hard", "cyr_yeru", "cyr_soft", "cyr_e",
     "cyr_yu", "cyr_ya"}
SpanishChars == {"a_acute", "e_acute", "i_acute", "o_acute", "u_acute", "n_tilde"}
FrenchChars ==
    {"a_grave", "a_circ", "a_uml", "c_cedil", "e_acute", "e_grave", "e_circ", "e_uml",
     "i_circ", "i_uml", "o_circ", "o_uml", "u_grave", "u_circ", "u_uml", "y_uml"}
GermanChars == {"a_uml", "o_uml", "u_uml", "eszett"}
common_english_words ==
    {<<"t", "h", "e">>,
      <<"a", "n", "d">>,
      <<"y", "o", "u">>,
      <<"t", "h", "a", "t">>,
      <<"w", "a", "s">>,
      <<"f", "o", "r">>,
      <<"a", "r", "e">>,
      <<"w", "i", "t", "h">>,
      <<"t", "h", "i", "s">>,
      <<"h", "a", "v", "e">>}

(* str.lower() on the capital letters the texts of the model use *)
Lower(c) ==
    CASE c = "T" -> "t" [] c = "H" -> "h" [] c = "E" -> "e"
      [] c = "CYR_PE" -> "cyr_pe"
      [] c = "E_ACUTE" -> "e_acute"
      [] c = "U_UML" -> "u_uml"
      [] OTHER -> c

TextLower(t) == [i \in 1..Len(t) |-> Lower(t[i])]

Contains(t, word) ==
    \E i \in 1..Len(t) :
        /\ i + Len(word) - 1 <= Len(t)
        /\ \A j \in 1..Len(word) : t[i + j - 1] = word[j]

HasChar(t, chars) == \E i \in 1..Len(t) : t[i] \in chars

NoLang == "none"

(* A detector that looks for the French characters before the Spanish ones *)
DetectLanguageFromText_FrenchFirst(t) ==
    LET text_lower == TextLower(t) IN
    IF HasChar(text_lower, Cyrillic) THEN "ru"
    ELSE IF \E word \in common_english_words : Contains(text_lower, word) THEN "en"
    ELSE IF HasChar(text_lower, FrenchChars) THEN "fr"
    ELSE IF HasChar(text_lower, SpanishChars) THEN "es"
    ELSE IF HasChar(text_lower, GermanChars) THEN "de"
    ELSE NoLang

DetectLanguageFromText(t) ==
    LET text_lower == TextLower(t) IN
    IF HasChar(text_lower, Cyrillic) THEN "ru"
    ELSE IF \E word \in common_english_words : Contains(text_lower, word) THEN "en"
    ELSE IF HasChar(text_lower, SpanishChars) THEN "es"
    ELSE IF HasChar(text_lower, FrenchChars) THEN "fr"
    ELSE IF HasChar(text_lower, GermanChars) THEN "de"
    ELSE NoLang

Hello == <<"h", "e", "l", "l", "o">>
TheCat == <<"T", "h", "e">>
Privet == <<"cyr_pe", "cyr_er">>
Digits == <<"1", "2", "3", "4">>
NoText == << >>

----------------------------------------------------------------------------
(* Messages and events *)

(* A message built with its two texts exchanged *)
Message_Exchanged(speaker, language, original, translated, timestamp, confidence) ==
    [speaker |-> speaker, language |-> language, original_text |-> translated,
     translated_text |-> original, timestamp |-> timestamp, confidence |-> confidence]

Message(speaker, language, original, translated, timestamp, confidence) ==
    [speaker |-> speaker, language |-> language, original_text |-> original,
     translated_text |-> translated, timestamp |-> timestamp, confidence |-> confidence]

NoMsg == Message("", "", << >>, << >>, 0, 0)

InstructionText == <<"instruction">>

SystemMessage(txt, now) == Message("System", "info", txt, << >>, now, 100)

Ev(type, what, src) == [type |-> type, what |-> what, src |-> src, msg |-> NoMsg]

MsgEv(m, src) == [type |-> "message", what |-> "message", src |-> src, msg |-> m]

(* A queue whose put places the events at the front *)
QueuePut_Front(q, evs) == evs \o q

(* queue.Queue.put and get_nowait: first in, first out *)
QueuePut(q, evs) == q \o evs

QueueHead(q) == Head(q)

QueueRest(q) == Tail(q)

----------------------------------------------------------------------------
(* What the microphone and the recognition service answer.  An answer is    *)
(* the outcome of one listen call ("audio", "timeout" for WaitTimeoutError, *)
(* "error" for any other exception) and, when a buffer was captured, of the *)
(* three recognition attempts on it: "nomatch" (UnknownValueError),         *)
(* "reqerr" (RequestError), "crash" (any other exception), "ok" (the text   *)
(* txt is returned) or "empty" (an empty transcript is returned).           *)

Answer(listen, auto, l1, l2, txt) ==
    [listen |-> listen, auto |-> auto, l1 |-> l1, l2 |-> l2, txt |-> txt]

Silence == Answer("timeout", "nomatch", "nomatch", "nomatch", NoText)
NoSpeech == Answer("audio", "nomatch", "nomatch", "nomatch", NoText)
ServiceDown == Answer("audio", "reqerr", "nomatch", "nomatch", NoText)
Speech(txt) == Answer("audio", "ok", "nomatch", "nomatch", txt)

NoAudio == Answer("none", "nomatch", "nomatch", "nomatch", NoText)

CaptureError == Answer("error", "nomatch", "nomatch", "nomatch", NoText)

(* Every answer: whatever each of the three attempts does, on two texts *)
Attempts == {"nomatch", "reqerr", "crash", "ok", "empty"}

AllAnswers ==
    {Silence, CaptureError}
        \cup { Answer("audio", auto, l1, l2, txt) :
                   auto \in Attempts, l1 \in Attempts, l2 \in Attempts,
                   txt \in {Hello, TheCat} }

Answers == {Silence, NoSpeech, ServiceDown, Speech(Hello), Speech(Privet)}

RECURSIVE SeqsUpTo(_, _)
SeqsUpTo(S, n) ==
    IF n = 0 THEN { << >> }
    ELSE LET shorter == SeqsUpTo(S, n - 1) IN
         shorter \cup { Append(s, x) : s \in { t \in shorter : Len(t) = n - 1 }, x \in S }

----------------------------------------------------------------------------
(* Speaker attribution (process_recognized_text) *)

LangChars(code) ==
    CASE code = "ru" -> <<"r", "u">>
      [] code = "en" -> <<"e", "n">>
      [] code = "es" -> <<"e", "s">>
      [] code = "fr" -> <<"f", "r">>
      [] code = "de" -> <<"d", "e">>
      [] code = "it" -> <<"i", "t">>
      [] OTHER -> << >>

(* code[:2] *)
FirstTwo(chars) == SubSeq(chars, 1, IF Len(chars) < 2 THEN Len(chars) ELSE 2)

(* An attribution that compares with the second language first *)
Attribute_Lang2First(detected, lang1, lang2) ==
    IF detected = lang2 THEN [speaker |-> "Speaker 2", target |-> lang1]
    ELSE IF detected = lang1 THEN [speaker |-> "Speaker 1", target |-> lang2]
    ELSE [speaker |-> "Speaker 2", target |-> lang1]

(* An attribution that gives a language of neither side to the first speaker *)
Attribute_UnknownToFirst(detected, lang1, lang2) ==
    IF detected = lang2 /\ detected # lang1 THEN [speaker |-> "Speaker 2", target |-> lang1]
    ELSE [speaker |-> "Speaker 1", target |-> lang2]

Attribute(detected, lang1, lang2) ==
    IF detected = lang1 THEN [speaker |-> "Speaker 1", target |-> lang2]
    ELSE IF detected = lang2 THEN [speaker |-> "Speaker 2", target |-> lang1]
    ELSE IF LangChars(detected) = FirstTwo(LangChars(lang1))
         THEN [speaker |-> "Speaker 1", target |-> lang2]
         ELSE [speaker |-> "Speaker 2", target |-> lang1]

(* translate_with_google_api.  The backend's outcome is "ok" (200 and a     *)
(* body with translated parts), "noparts" (200 and a body without parts),    *)
(* "http500" (a status other than 200), "timeout" (requests Timeout),        *)
(* "network" (another RequestException), "badjson" (response.json() raises   *)
(* ValueError) or "badjson_req" (it raises requests' JSONDecodeError, which  *)
(* is a RequestException).                                                   *)
Translated(txt, target) == <<target>> \o txt
Placeholder == <<"[", "translation error", "]">>
TimeoutPlaceholder == <<"[", "translation timeout", "]">>
NetworkPlaceholder == <<"[", "network error", "]">>

BackendOutcomes ==
    {"ok", "noparts", "http500", "timeout", "network", "badjson", "badjson_req"}

(* The outcomes the capture pipeline is run with by default *)
BackendSample == {"ok", "http500"}

(* What the try block raises on the outcome, and the classes it is an      *)
(* instance of                                                              *)
Raised(outcome) ==
    CASE outcome = "timeout" -> "Timeout"
      [] outcome = "network" -> "ConnectionError"
      [] outcome = "badjson" -> "ValueError"
      [] outcome = "badjson_req" -> "JSONDecodeError"
      [] OTHER -> "nothing"

Bases(exc) ==
    CASE exc = "Timeout" -> {"Timeout", "RequestException", "Exception"}
      [] exc = "ConnectionError" -> {"ConnectionError", "RequestException", "Exception"}
      [] exc = "ValueError" -> {"ValueError", "Exception"}
      [] exc = "JSONDecodeError" ->
             {"JSONDecodeError", "RequestException", "ValueError", "Exception"}
      [] OTHER -> {}

(* A function without its last handler *)
ExceptClauses_NoCatchAll == << "Timeout", "RequestException" >>

(* The except clauses of translate_with_google_api, in their order *)
ExceptClauses == << "Timeout", "RequestException", "Exception" >>

(* The first clause that catches exc, or "uncaught" *)
CaughtBy(exc) ==
    LET matching == { i \in 1..Len(ExceptClauses) : ExceptClauses[i] \in Bases(exc) }
    IN  IF matching = {} THEN "uncaught"
        ELSE ExceptClauses[CHOOSE i \in matching : \A k \in matching : i <= k]

(* The value that stands for an exception leaving translate_with_google_api *)
Uncaught == << "raise" >>

TranslateWithGoogleApi(txt, source, target, outcome) ==
    IF source = target THEN txt
    ELSE IF Raised(outcome) = "nothing"
         THEN CASE outcome = "ok" -> Translated(txt, target)
                [] outcome = "noparts" -> txt
                [] OTHER -> Placeholder
    ELSE CASE CaughtBy(Raised(outcome)) = "Timeout" -> TimeoutPlaceholder
           [] CaughtBy(Raised(outcome)) = "RequestException" -> NetworkPlaceholder
           [] CaughtBy(Raised(outcome)) = "Exception" -> Placeholder
           [] OTHER -> Uncaught

(* A function that makes its request whatever the languages are *)
TranslateRequests_Always(txt, source, target) == 1

(* The requests.get calls translate_with_google_api makes *)
TranslateRequests(txt, source, target) == IF source = target THEN 0 ELSE 1

----------------------------------------------------------------------------
(* recognize_audio up to its call of process_recognized_text: the auto      *)
(* attempt, then lang1's locale, then lang2's locale                        *)

(* A recognition that takes a RequestError of an attempt for no match *)
Raises_CrashOnly == {"crash"}

(* The outcomes of an attempt that leave recognize_audio as an exception,   *)
(* and those in which recognize_google returns                              *)
Raises == {"reqerr", "crash"}
Returns == {"ok", "empty"}

(* What recognize_google returns on the outcome o *)
Returned(o, txt) == IF o = "ok" THEN txt ELSE NoText

(* result: "ok" (process_recognized_text is called with text and lang), or  *)
(* what is raised; tried: the attempts made; info: whether an info event    *)
(* about the language was put                                               *)
RecognizeAudio(a, lang1, lang2) ==
    LET autoText == Returned(a.auto, a.txt)
        detected == IF DetectLanguageFromText(autoText) = NoLang
                    THEN lang1 ELSE DetectLanguageFromText(autoText)
        Raise(r, tried) ==
            [result |-> r, text |-> NoText, lang |-> NoLang, tried |-> tried, info |-> FALSE]
        (* `text = ...; detected_lang = lang_trans; put info; break`, then *)
        (* `if text and detected_lang`                                     *)
        Break(t, l, tried) ==
            IF t # NoText
            THEN [result |-> "ok", text |-> t, lang |-> l, tried |-> tried, info |-> TRUE]
            ELSE [result |-> "nomatch", text |-> NoText, lang |-> NoLang, tried |-> tried,
                  info |-> TRUE]
    IN  IF a.auto \in Raises THEN Raise(a.auto, <<"auto">>)
        ELSE IF autoText # NoText
             THEN [result |-> "ok", text |-> autoText, lang |-> detected,
                   tried |-> <<"auto">>, info |-> TRUE]
        ELSE IF a.l1 \in Raises THEN Raise(a.l1, <<"auto", "lang1">>)
        ELSE IF a.l1 \in Returns
             THEN Break(Returned(a.l1, a.txt), lang1, <<"auto", "lang1">>)
        ELSE IF a.l2 \in Raises THEN Raise(a.l2, <<"auto", "lang1", "lang2">>)
        ELSE IF a.l2 \in Returns
             THEN Break(Returned(a.l2, a.txt), lang2, <<"auto", "lang1", "lang2">>)
        ELSE Raise("nomatch", <<"auto", "lang1", "lang2">>)

----------------------------------------------------------------------------
(* The dialogue history and the chat view (display_message, limit_messages) *)

(* seq[-n:] *)
LastN(seq, n) ==
    IF n = 0 \/ n >= Len(seq) THEN seq ELSE SubSeq(seq, Len(seq) - n + 1, Len(seq))

(* A limit that counts the stretch item of the layout as a message *)
LimitMessages_NoStretch(widgets, maxm) ==
    IF Len(widgets) > maxm + 1
    THEN SubSeq(widgets, Len(widgets) - maxm, Len(widgets))
    ELSE widgets

(* ChatWidget.limit_messages: takeAt(0) while more than max_messages widgets *)
LimitMessages(widgets, maxm) ==
    IF Len(widgets) > maxm THEN SubSeq(widgets, Len(widgets) - maxm + 1, Len(widgets))
    ELSE widgets

(* A trim that keeps the oldest entries *)
HistoryTrim_Oldest(history, maxm) ==
    IF Len(history) > maxm * 2 THEN SubSeq(history, 1, maxm) ELSE history

(* `if len(self.dialogue_history) > max * 2: history = history[-max:]` *)
HistoryTrim(history, maxm) ==
    IF Len(history) > maxm * 2 THEN LastN(history, maxm) ELSE history

HistoryAfter(history, m, maxm) == HistoryTrim(Append(history, m), maxm)

(* A display that counts no message *)
StatsAfter_Uncounted(stats, m, is_system) == stats

StatsAfter(stats, m, is_system) ==
    IF ~is_system /\ m.speaker \in DOMAIN stats
    THEN [stats EXCEPT ![m.speaker] = @ + 1]
    ELSE stats

NoStats == [s \in {"Speaker 1", "Speaker 2"} |-> 0]

(* display_message, applied to the history `history`, the view `widgets`    *)
(* and the statistics `stats`                                               *)
DisplayMessage(history, widgets, stats, m, is_system) ==
    /\ dialogue_history' = HistoryAfter(history, m, max_messages)
    /\ chat_layout' = LimitMessages(Append(widgets, m), max_messages)
    /\ speaker_stats' = StatsAfter(stats, m, is_system)

----------------------------------------------------------------------------
(* The message queue *)

Emit(p, evs) ==
    /\ message_queue' = QueuePut(message_queue, evs)
    /\ pending' = [pending EXCEPT ![p] = @ \o evs]

IsAlive(w) == w # NoThread /\ pc[w] \notin {"idle", "done"}

(* The calls a join can time out in: listen (up to listen_timeout plus        *)
(* phrase_time_limit), the recognition request and the translation request.   *)
Blocking == {"listen", "recognize", "process"}

----------------------------------------------------------------------------
(* recording_worker *)

NoLangs == <<NoLang, NoLang>>

NoTranslation == [made |-> FALSE]

(* threading.Thread(target=self.recording_worker).start() in a free slot *)
FreeSlot(w) ==
    /\ pc[w] \in {"idle", "done"}
    /\ \A v \in Workers : v < w => pc[v] \notin {"idle", "done"}

StartThread(w) ==
    /\ recording_thread' = w
    /\ pc' = [pc EXCEPT ![w] = "start"]
    /\ consecutive_errors' = [consecutive_errors EXCEPT ![w] = 0]
    /\ expired' = [expired EXCEPT ![w] = FALSE]
    /\ elapsed_over' = [elapsed_over EXCEPT ![w] = FALSE]
    /\ audio' = [audio EXCEPT ![w] = NoAudio]
    /\ rec_langs' = [rec_langs EXCEPT ![w] = NoLangs]
    /\ start_langs' = [start_langs EXCEPT ![w] = <<lang1_combo, lang2_combo>>]
    /\ text' = [text EXCEPT ![w] = NoText]
    /\ detected_lang' = [detected_lang EXCEPT ![w] = NoLang]
    /\ fed' = << >>
    /\ pauses' = 0
    /\ slept' = [slept EXCEPT ![w] = 0]
    /\ translation' = [translation EXCEPT ![w] = NoTranslation]

(* `while self.is_recording and not self.should_stop_recording.is_set()` *)
LoopCondition(recording, stop) == recording /\ ~stop

(* A loop that keeps the counter when listen returns a buffer *)
CounterAfterCapture_Kept(c) == c

(* `consecutive_errors = 0` after listen has returned a buffer *)
CounterAfterCapture(c) == 0

(* A loop that listens again at once after a failed listen *)
AfterCaptureError_Relisten == "listen"

(* `continue` after a failed listen: back to the loop test *)
AfterCaptureError == "loop"

(* `if consecutive_errors >= max_consecutive_errors`, at the end of an iteration *)
NeedsPause(c) == c >= max_consecutive_errors

PauseEvents(w, c) ==
    IF NeedsPause(c) THEN << Ev("error", "restart", w) >> ELSE << >>

CounterAfterCheck(c) == IF NeedsPause(c) THEN 0 ELSE c

PausesAfterCheck(c) == IF NeedsPause(c) THEN pauses + 1 ELSE pauses

(* time.sleep, in tenths of a second: 0.5 after a failed listen, 1 after a  *)
(* RequestError, 2 for the recovery pause                                   *)
CaptureSleep == 5
RequestSleep == 10
PauseSleep == 20

SleepAfterCheck(c) == IF NeedsPause(c) THEN PauseSleep ELSE 0

(* `with self.microphone as source` and adjust_for_ambient_noise: either    *)
(* raise (the outer handler) or the loop is entered                         *)
Calibrate(w) ==
    /\ UNCHANGED call_vars
    /\ UNCHANGED translation
    /\ pc[w] = "start"
    /\ \E ok \in BOOLEAN :
         IF ok
         THEN /\ pc' = [pc EXCEPT ![w] = "loop"]
              /\ consecutive_errors' = [consecutive_errors EXCEPT ![w] = 0]
              /\ expired' = [expired EXCEPT ![w] = FALSE]
              /\ UNCHANGED << is_recording, is_listening, message_queue, pending >>
         ELSE /\ pc' = [pc EXCEPT ![w] = "done"]
              /\ Emit(w, << Ev("error", "critical", w) >>)
              /\ is_recording' = FALSE
              /\ is_listening' = FALSE
              /\ UNCHANGED << consecutive_errors, expired >>
    /\ UNCHANGED << should_stop_recording, recording_thread, ui_pc, elapsed_over, audio,
                    rec_langs, start_langs, text, detected_lang, lang_vars, history_vars,
                    max_messages, clock, feed_vars, pauses, slept,
                    tts_vars >>

(* The loop test and, when it holds, the iteration up to the listen call *)
LoopTest(w) ==
    /\ UNCHANGED call_vars
    /\ pc[w] = "loop"
    /\ IF LoopCondition(is_recording, should_stop_recording)
       THEN /\ Len(message_queue) <= MaxQueue
            /\ elapsed_over' = [elapsed_over EXCEPT ![w] = expired[w]]
            /\ Emit(w, << Ev("time", "elapsed", w), Ev("status", "listening", w) >>)
            /\ is_listening' = TRUE
            /\ pc' = [pc EXCEPT ![w] = "listen"]
       ELSE /\ is_listening' = FALSE
            /\ pc' = [pc EXCEPT ![w] = "done"]
            /\ UNCHANGED << elapsed_over, message_queue, pending >>
    /\ slept' = [slept EXCEPT ![w] = 0]
    /\ translation' = [translation EXCEPT ![w] = NoTranslation]
    /\ UNCHANGED << is_recording, should_stop_recording, recording_thread, ui_pc,
                    consecutive_errors, expired, audio, rec_langs, start_langs, text,
                    detected_lang, lang_vars, history_vars, max_messages, clock,
                    feed_vars, pauses,
                    tts_vars >>

NextAnswer == IF feed = << >> THEN Silence ELSE Head(feed)

(* self.recognizer.listen(...) returns a buffer or raises: whatever it      *)
(* raises is caught by `except Exception` around the call                   *)
Listen(w) ==
    /\ UNCHANGED call_vars
    /\ UNCHANGED translation
    /\ pc[w] = "listen"
    /\ feed' = IF feed = << >> THEN feed ELSE Tail(feed)
    /\ fed' = IF feed = << >> THEN fed ELSE Append(fed, Head(feed))
    /\ IF NextAnswer.listen \in {"timeout", "error"}
       THEN /\ pc' = [pc EXCEPT ![w] = AfterCaptureError]
            /\ slept' = [slept EXCEPT ![w] = CaptureSleep]
            /\ UNCHANGED << consecutive_errors, audio, message_queue, pending >>
       ELSE /\ audio' = [audio EXCEPT ![w] = NextAnswer]
            /\ UNCHANGED slept
            /\ consecutive_errors' =
                   [consecutive_errors EXCEPT ![w] = CounterAfterCapture(@)]
            /\ Emit(w, << Ev("status", "recognizing", w) >>)
            /\ pc' = [pc EXCEPT ![w] = "recognize"]
    /\ UNCHANGED << flag_vars, ui_pc, expired, elapsed_over, rec_langs, start_langs, text,
                    detected_lang, lang_vars, history_vars, max_messages, clock, pauses,
                    tts_vars >>

(* The text of the error event recording_worker puts for what recognize_audio raises *)
ErrorKind(raised) ==
    CASE raised = "nomatch" -> "nospeech"
      [] raised = "reqerr" -> "api"
      [] OTHER -> "unexpected"

(* recognize_audio(audio) up to process_recognized_text, and the handlers   *)
(* of recording_worker for what it raises                                   *)
Recognize(w) ==
    /\ UNCHANGED call_vars
    /\ UNCHANGED translation
    /\ pc[w] = "recognize"
    /\ LET r == RecognizeAudio(audio[w], lang1_combo, lang2_combo)
           c == consecutive_errors[w] + 1
       IN  /\ rec_langs' = [rec_langs EXCEPT ![w] = <<lang1_combo, lang2_combo>>]
           /\ audio' = [audio EXCEPT ![w] = NoAudio]
           /\ IF r.result = "ok"
              THEN /\ text' = [text EXCEPT ![w] = r.text]
                   /\ detected_lang' = [detected_lang EXCEPT ![w] = r.lang]
                   /\ Emit(w, << Ev("status", "detecting", w), Ev("info", "language", w) >>)
                   /\ pc' = [pc EXCEPT ![w] = "process"]
                   /\ UNCHANGED << consecutive_errors, pauses, slept >>
              ELSE /\ Emit(w, << Ev("status", "detecting", w) >>
                              \o (IF r.info THEN << Ev("info", "language", w) >> ELSE << >>)
                              \o << Ev("error", ErrorKind(r.result), w) >>
                              \o PauseEvents(w, c))
                   /\ consecutive_errors' = [consecutive_errors EXCEPT ![w] = CounterAfterCheck(c)]
                   /\ pauses' = PausesAfterCheck(c)
                   /\ slept' = [slept EXCEPT ![w] =
                                    (IF r.result = "reqerr" THEN RequestSleep ELSE 0)
                                    + SleepAfterCheck(c)]
                   /\ pc' = [pc EXCEPT ![w] = "loop"]
                   /\ UNCHANGED << text, detected_lang >>
    /\ UNCHANGED << flag_vars, ui_pc, expired, elapsed_over, start_langs, lang_vars,
                    history_vars, max_messages, clock, feed_vars,
                    tts_vars >>

(* A process_recognized_text that speaks whenever enable_tts is on *)
AutoPlay_EnableOnly(translated) == config.enable_tts /\ translated # Uncaught

(* process_recognized_text calls speak_text: after the message event is     *)
(* put, which an exception of the translation prevents                      *)
AutoPlay(translated) ==
    config.enable_tts /\ config.auto_play_tts /\ translated # Uncaught

(* speak_text goes on after `if not enable_tts or not text.strip(): return` *)
SpeakTextGoesOn(auto, translated) == auto /\ config.enable_tts /\ translated # NoText

(* speak_text starts an elevenlabs_tts_worker thread: a key is set *)
StartsWorker(auto, translated) == SpeakTextGoesOn(auto, translated) /\ config.has_key

(* The event speak_text itself puts: the error of a missing key *)
SpeakTextEvents(auto, translated, w) ==
    IF SpeakTextGoesOn(auto, translated) /\ ~config.has_key
    THEN << Ev("error", "nokey", w) >>
    ELSE << >>

(* message_queue.put(('message', message)), then the call of speak_text *)
PutThenSpeak(published, spoken) == << published >> \o spoken

(* process_recognized_text(text, detected_lang), then the rest of the       *)
(* iteration: the test of the maximum recording time                        *)
ProcessWith(w, outcomes) ==
    /\ UNCHANGED call_vars
    /\ pc[w] = "process"
    /\ \E outcome \in outcomes :
         LET a == Attribute(detected_lang[w], lang1_combo, lang2_combo)
             translated == TranslateWithGoogleApi(text[w], detected_lang[w], a.target, outcome)
             message == Message(a.speaker, detected_lang[w], text[w], translated,
                                clock + 1, 80)
             (* `except Exception` of process_recognized_text puts an error event *)
             published == IF translated = Uncaught THEN Ev("error", "unexpected", w)
                          ELSE MsgEv(message, w)
             c == consecutive_errors[w]
             (* `if enable_tts and auto_play_tts: self.speak_text(translated_text, target_lang)` *)
             auto == AutoPlay(translated)
             said == PutThenSpeak(published, SpeakTextEvents(auto, translated, w))
         IN  /\ clock' = clock + 1
             /\ StartsWorker(auto, translated) => tts_pc = "idle"
             /\ tts_pc' = IF StartsWorker(auto, translated) THEN "start" ELSE tts_pc
             /\ auto_spoken' =
                    IF auto
                    THEN Append(auto_spoken,
                                [text |-> translated, lang |-> a.target, by |-> w,
                                 stamp |-> clock + 1])
                    ELSE auto_spoken
             /\ translation' = [translation EXCEPT ![w] =
                    [made |-> TRUE, text |-> text[w], source |-> detected_lang[w],
                     target |-> a.target, outcome |-> outcome, val |-> translated]]
             /\ IF elapsed_over[w]
                THEN /\ Emit(w, << Ev("status", "translating", w) >> \o said
                                \o << Ev("info", "maxtime", w) >>)
                     /\ is_recording' = FALSE
                     /\ is_listening' = FALSE
                     /\ pc' = [pc EXCEPT ![w] = "done"]
                     /\ UNCHANGED << consecutive_errors, pauses, slept >>
                ELSE /\ Emit(w, << Ev("status", "translating", w) >> \o said
                                \o PauseEvents(w, c))
                     /\ slept' = [slept EXCEPT ![w] = SleepAfterCheck(c)]
                     /\ consecutive_errors' =
                            [consecutive_errors EXCEPT ![w] = CounterAfterCheck(c)]
                     /\ pauses' = PausesAfterCheck(c)
                     /\ pc' = [pc EXCEPT ![w] = "loop"]
                     /\ UNCHANGED << is_recording, is_listening >>
    /\ text' = [text EXCEPT ![w] = NoText]
    /\ detected_lang' = [detected_lang EXCEPT ![w] = NoLang]
    /\ rec_langs' = [rec_langs EXCEPT ![w] = NoLangs]
    /\ UNCHANGED << should_stop_recording, recording_thread, ui_pc, expired, elapsed_over,
                    audio, start_langs, lang_vars, history_vars, max_messages, feed_vars,
                    is_playing_tts, current_tts_file, config >>

Process(w) == ProcessWith(w, BackendSample)

(* Time passes: time() - start_time comes to exceed config['record_duration'] *)
TimePasses(w) ==
    /\ UNCHANGED call_vars
    /\ UNCHANGED translation
    /\ pc[w] \in {"loop", "listen", "recognize", "process"}
    /\ ~expired[w]
    /\ expired' = [expired EXCEPT ![w] = TRUE]
    /\ UNCHANGED << flag_vars, ui_pc, pc, consecutive_errors, elapsed_over, audio,
                    rec_langs, start_langs, text, detected_lang, lang_vars, message_queue,
                    pending, history_vars, max_messages, clock, feed_vars, pauses, slept,
                    tts_vars >>

----------------------------------------------------------------------------
(* elevenlabs_tts_worker *)

(* The status event and the checks of the key: a key that fails them ends   *)
(* the worker with an error event                                           *)
TtsStart ==
    /\ UNCHANGED call_vars
    /\ tts_pc = "start"
    /\ \E key_ok \in BOOLEAN :
         IF key_ok
         THEN /\ Emit(TtsThread, << Ev("status", "speaking", TtsThread) >>)
              /\ tts_pc' = "request"
         ELSE /\ Emit(TtsThread, << Ev("status", "speaking", TtsThread),
                                    Ev("error", "key", TtsThread) >>)
              /\ tts_pc' = "idle"
    /\ UNCHANGED << flag_vars, ui_pc, loop_vars, lang_vars, history_vars, max_messages,
                    clock, feed_vars, pauses, is_playing_tts, current_tts_file, config,
                    auto_spoken >>

(* requests.post returns: on 200 with content the worker itself calls       *)
(* play_audio_file, otherwise it puts an error event                        *)
TtsRequest ==
    /\ UNCHANGED call_vars
    /\ tts_pc = "request"
    /\ \E ok \in BOOLEAN :
         IF ok
         THEN /\ current_tts_file' = TRUE
              /\ is_playing_tts' = TRUE
              /\ Emit(TtsThread, << Ev("info", "playing", TtsThread),
                                    Ev("info", "spoken", TtsThread) >>)
         ELSE /\ Emit(TtsThread, << Ev("error", "tts", TtsThread) >>)
              /\ UNCHANGED << is_playing_tts, current_tts_file >>
    /\ tts_pc' = "idle"
    /\ UNCHANGED << flag_vars, ui_pc, loop_vars, lang_vars, history_vars, max_messages,
                    clock, feed_vars, pauses, config, auto_spoken >>

TtsNext == TtsStart \/ TtsRequest

----------------------------------------------------------------------------
(* The UI thread *)

(* start_recording_thread after its join: clear the event, start a thread *)
StartRecordingThread ==
    /\ should_stop_recording' = FALSE
    /\ \E w \in Workers : FreeSlot(w) /\ StartThread(w)

(* toggle_recording.  When a thread is alive the handler stops at the join  *)
(* of start_recording_thread (after `should_stop_recording.set()`) or of    *)
(* stop_recording_thread.                                                   *)
ToggleRecording ==
    /\ UNCHANGED call_vars
    /\ ui_pc = "idle"
    /\ is_recording' = ~is_recording
    /\ IF ~is_recording
       THEN /\ Len(message_queue) <= MaxQueue
            /\ is_listening' = TRUE
            /\ IF IsAlive(recording_thread)
               THEN /\ should_stop_recording' = TRUE
                    /\ ui_pc' = "join_start"
                    /\ UNCHANGED << recording_thread, loop_vars, fed, pauses >>
               ELSE /\ StartRecordingThread
                    /\ UNCHANGED ui_pc
       ELSE /\ should_stop_recording' = TRUE
            /\ ui_pc' = IF IsAlive(recording_thread) THEN "join_stop" ELSE "idle"
            /\ UNCHANGED << recording_thread, is_listening, loop_vars, fed, pauses >>
    /\ UNCHANGED << lang_vars, message_queue, pending, history_vars, max_messages, clock,
                    feed,
                    tts_vars >>

(* recording_thread.join(timeout=...) returns because the thread has ended *)
Joined == ~IsAlive(recording_thread)

(* recording_thread.join(timeout=...) returns because the timeout has passed *)
(* while the thread is inside a blocking call                                *)
JoinTimedOut == IsAlive(recording_thread) /\ pc[recording_thread] \in Blocking

AfterJoinStart ==
    /\ UNCHANGED call_vars
    /\ StartRecordingThread
    /\ ui_pc' = "idle"
    /\ UNCHANGED << is_recording, is_listening, lang_vars, message_queue, pending,
                    history_vars, max_messages, clock, feed,
                    tts_vars >>

AfterJoinStop ==
    /\ UNCHANGED call_vars
    /\ ui_pc' = "idle"
    /\ UNCHANGED << flag_vars, loop_vars, lang_vars, message_queue, pending, history_vars,
                    max_messages, clock, feed_vars, pauses,
                    tts_vars >>

JoinStartReturn == ui_pc = "join_start" /\ Joined /\ AfterJoinStart

JoinStartTimeout == ui_pc = "join_start" /\ JoinTimedOut /\ AfterJoinStart

JoinStopReturn == ui_pc = "join_stop" /\ Joined /\ AfterJoinStop

JoinStopTimeout == ui_pc = "join_stop" /\ JoinTimedOut /\ AfterJoinStop

(* update_ui, one turn of `while not self.message_queue.empty()` at a step: *)
(* get_nowait and the branch of its type.  The handler holds the UI thread  *)
(* until it has found the queue empty.                                      *)
UpdateUi ==
    /\ UNCHANGED call_vars
    /\ ui_pc \in {"idle", "update"}
    /\ message_queue # << >>
    /\ LET e == QueueHead(message_queue)
       IN  /\ message_queue' = QueueRest(message_queue)
           /\ ui_pc' = IF QueueRest(message_queue) = << >> THEN "idle" ELSE "update"
           /\ pending' = [pending EXCEPT ![e.src] = Tail(@)]
           /\ IF e.type = "message"
              THEN /\ DisplayMessage(dialogue_history, chat_layout, speaker_stats, e.msg, FALSE)
                   /\ inserted' = Append(inserted, e.msg)
              ELSE UNCHANGED history_vars
    /\ UNCHANGED << flag_vars, loop_vars, lang_vars, max_messages, clock, feed_vars,
                    pauses,
                    tts_vars >>

(* process_manual_input with enable_text_input on: the text `txt` is typed  *)
(* and sent; `outcome` is the outcome of the translation request            *)
ManualAttribute(detected, lang1, lang2) ==
    IF detected = lang1 THEN [speaker |-> "Speaker 1", target |-> lang2]
    ELSE [speaker |-> "Speaker 2", target |-> lang1]

ManualInput(txt, outcome) ==
    /\ UNCHANGED call_vars
    /\ ui_pc = "idle"
    /\ txt # NoText
    /\ Len(message_queue) <= MaxQueue
    /\ LET detected == IF DetectLanguageFromText(txt) = NoLang
                       THEN lang1_combo ELSE DetectLanguageFromText(txt)
           a == ManualAttribute(detected, lang1_combo, lang2_combo)
           translated == TranslateWithGoogleApi(txt, detected, a.target, outcome)
           message == Message(a.speaker, detected, txt, translated, clock + 1, 90)
       IN  Emit(UiThread, << MsgEv(message, UiThread) >>)
    /\ clock' = clock + 1
    /\ UNCHANGED << flag_vars, ui_pc, loop_vars, lang_vars, history_vars, max_messages,
                    feed_vars, pauses,
                    tts_vars >>

(* speak_text with enable_tts on and a key configured (a message's speaker  *)
(* button or the test button): an elevenlabs_tts_worker thread is started   *)
SpeakText ==
    /\ UNCHANGED call_vars
    /\ ui_pc = "idle"
    /\ tts_pc = "idle"
    /\ config.enable_tts /\ config.has_key
    /\ Len(message_queue) <= MaxQueue
    /\ tts_pc' = "start"
    /\ UNCHANGED << flag_vars, ui_pc, loop_vars, lang_vars, message_queue, pending,
                    history_vars, max_messages, clock, feed_vars, pauses, is_playing_tts,
                    current_tts_file, config, auto_spoken >>

(* handle_media_status(EndOfMedia): the player has reached the end *)
HandleMediaStatus ==
    /\ UNCHANGED call_vars
    /\ ui_pc = "idle"
    /\ is_playing_tts
    /\ is_playing_tts' = FALSE
    /\ current_tts_file' = FALSE
    /\ UNCHANGED << flag_vars, ui_pc, loop_vars, lang_vars, message_queue, pending,
                    history_vars, max_messages, clock, feed_vars, pauses, tts_pc, config,
                    auto_spoken >>

(* change_max_messages(value): the spin box gives a value other than the current one *)
ChangeMaxMessages(value) ==
    /\ UNCHANGED call_vars
    /\ ui_pc = "idle"
    /\ value # max_messages
    /\ Len(message_queue) <= MaxQueue
    /\ max_messages' = value
    /\ chat_layout' = LimitMessages(chat_layout, value)
    /\ Emit(UiThread, << Ev("info", "max_messages", UiThread) >>)
    /\ UNCHANGED << flag_vars, ui_pc, loop_vars, lang_vars, dialogue_history, speaker_stats,
                    inserted, clock, feed_vars, pauses,
                    tts_vars >>

(* clear_dialog, answered Yes: everything is cleared, then the instruction  *)
(* is shown again (add_instruction_message -> display_message)              *)
ClearDialog ==
    /\ UNCHANGED call_vars
    /\ ui_pc = "idle"
    /\ clock < MaxClock
    /\ Len(message_queue) <= MaxQueue
    /\ LET m == SystemMessage(InstructionText, clock + 1)
       IN  /\ DisplayMessage(<< >>, << >>, NoStats, m, TRUE)
           /\ inserted' = << m >>
    /\ clock' = clock + 1
    /\ Emit(UiThread, << Ev("info", "cleared", UiThread) >>)
    /\ UNCHANGED << flag_vars, ui_pc, loop_vars, lang_vars, max_messages, feed_vars, pauses,
                    tts_vars >>

(* update_tts_setting(key, value): a check box of the synthesis settings is *)
(* switched; tts_player.stop() leaves the flags of the program as they are  *)
UpdateTtsSetting(key, value) ==
    /\ UNCHANGED call_vars
    /\ ui_pc = "idle"
    /\ key \in {"enable_tts", "auto_play_tts"}
    /\ config[key] # value
    /\ config' = [config EXCEPT ![key] = value]
    /\ UNCHANGED << flag_vars, ui_pc, loop_vars, lang_vars, message_queue, pending,
                    history_vars, max_messages, clock, feed_vars, pauses, tts_pc,
                    is_playing_tts, current_tts_file, auto_spoken >>

(* The user selects another language in lang1_combo or lang2_combo *)
ChangeLanguage ==
    /\ UNCHANGED call_vars
    /\ ui_pc = "idle"
    /\ \E l \in Langs :
         \/ l # lang1_combo /\ lang1_combo' = l /\ UNCHANGED lang2_combo
         \/ l # lang2_combo /\ lang2_combo' = l /\ UNCHANGED lang1_combo
    /\ UNCHANGED << flag_vars, ui_pc, loop_vars, message_queue, pending, history_vars,
                    max_messages, clock, feed_vars, pauses,
                    tts_vars >>

----------------------------------------------------------------------------
(* Specifications *)

FirstMessage == SystemMessage(InstructionText, 1)

NoCall == [fn |-> "none"]
NoResult == [done |-> FALSE]

(* The state after GoogleWebSpeechTranslator.__init__, for a feed of `feeds` *)
(* and a configured max_messages of `maxes`                                  *)
ProgramInitWith(feeds, maxes, configs) ==
    /\ is_recording = FALSE
    /\ should_stop_recording = FALSE
    /\ recording_thread = NoThread
    /\ is_listening = FALSE
    /\ ui_pc = "idle"
    /\ pc = [w \in Workers |-> "idle"]
    /\ consecutive_errors = [w \in Workers |-> 0]
    /\ expired = [w \in Workers |-> FALSE]
    /\ elapsed_over = [w \in Workers |-> FALSE]
    /\ audio = [w \in Workers |-> NoAudio]
    /\ rec_langs = [w \in Workers |-> NoLangs]
    /\ start_langs = [w \in Workers |-> NoLangs]
    /\ text = [w \in Workers |-> NoText]
    /\ detected_lang = [w \in Workers |-> NoLang]
    /\ lang1_combo = "ru"
    /\ lang2_combo = "en"
    /\ message_queue = << >>
    /\ pending = [p \in Producers |-> << >>]
    /\ max_messages \in maxes
    /\ dialogue_history = << FirstMessage >>
    /\ chat_layout = << FirstMessage >>
    /\ speaker_stats = NoStats
    /\ inserted = << FirstMessage >>
    /\ clock = 1
    /\ feed \in feeds
    /\ fed = << >>
    /\ pauses = 0
    /\ tts_pc = "idle"
    /\ is_playing_tts = FALSE
    /\ current_tts_file = FALSE
    /\ config \in configs
    /\ auto_spoken = << >>
    /\ slept = [w \in Workers |-> 0]
    /\ translation = [w \in Workers |-> NoTranslation]

(* The configuration of a user who has set a key: DEFAULT_CONFIG has        *)
(* enable_tts on and auto_play_tts off                                      *)
KeyedConfig == [enable_tts |-> TRUE, auto_play_tts |-> FALSE, has_key |-> TRUE]

ProgramInit(feeds, maxes) == ProgramInitWith(feeds, maxes, {KeyedConfig})

(* The program itself: no function is called on its own *)
InitWith(feeds, maxes) ==
    /\ ProgramInit(feeds, maxes)
    /\ call = NoCall
    /\ result = NoResult

WorkerNext(w) ==
    \/ Calibrate(w)
    \/ LoopTest(w)
    \/ Listen(w)
    \/ Recognize(w)
    \/ Process(w)

UiNext ==
    \/ ToggleRecording
    \/ JoinStartReturn
    \/ JoinStartTimeout
    \/ JoinStopReturn
    \/ JoinStopTimeout
    \/ UpdateUi
    \/ \E txt \in {Hello, Privet}, o \in BackendSample : ManualInput(txt, o)
    \/ \E value \in 1..MaxMax : ChangeMaxMessages(value)
    \/ ClearDialog
    \/ ChangeLanguage
    \/ SpeakText
    \/ HandleMediaStatus

(* The whole program: two worker threads overlap when a join times out *)
Init == InitWith({ << Speech(Hello) >> }, {1})

Next ==
    \/ \E w \in Workers : WorkerNext(w)
    \/ \E w \in Workers : TimePasses(w)
    \/ ToggleRecording
    \/ JoinStartReturn
    \/ JoinStartTimeout
    \/ JoinStopReturn
    \/ JoinStopTimeout
    \/ UpdateUi

Spec == Init /\ [][Next]_vars


(* The capture loop of one worker: every join returns because the worker    *)
(* has ended.  The feeds are all short ones and runs of NoSpeechDetected.   *)
Fails(k) == [i \in 1..k |-> NoSpeech]

BackoffFeeds ==
    { Fails(k) \o tail : k \in 1..(max_consecutive_errors + 1),
                         tail \in { << >>, << Speech(Hello) >> } }

InitLoop == InitWith(SeqsUpTo(Answers, FeedLen) \cup BackoffFeeds, {1})

NextLoop ==
    \/ \E w \in Workers : WorkerNext(w)
    \/ \E w \in Workers : TimePasses(w)
    \/ ToggleRecording
    \/ JoinStopReturn
    \/ UpdateUi

SpecLoop == InitLoop /\ [][NextLoop]_vars

(* Stopping a worker: the join of stop_recording_thread may time out, the   *)
(* join of start_recording_thread returns when the worker has ended.  Every *)
(* thread that can take a step eventually takes one, and the UI timer fires *)
(* update_ui every 100 ms.                                                  *)
InitStop == InitWith({ << Speech(Hello) >>, << NoSpeech >>, << Silence, ServiceDown >> }, {1})

NextStop ==
    \/ NextLoop
    \/ JoinStopTimeout
    \/ JoinStartReturn

FairStop ==
    /\ InitStop /\ [][NextStop]_vars
    /\ \A w \in Workers : WF_vars(WorkerNext(w))
    /\ WF_vars(UpdateUi)

(* One worker, and the user changing the language pair while it runs *)
InitLang == InitWith({ << Speech(Hello) >> }, {1})

NextLang ==
    \/ \E w \in Workers : WorkerNext(w)
    \/ \E w \in Workers : TimePasses(w)
    \/ ToggleRecording
    \/ JoinStopReturn
    \/ UpdateUi
    \/ ChangeLanguage

SpecLang == InitLang /\ [][NextLang]_vars

(* The dialogue history with max_messages fixed: typed messages only *)
InitEviction == InitWith({ << >> }, 1..MaxMax)

NextEviction ==
    \/ Len(inserted) + Len(message_queue) < max_messages + 5
          /\ \E o \in BackendSample : ManualInput(Hello, o)
    \/ UpdateUi

SpecEviction == InitEviction /\ [][NextEviction]_vars

(* The dialogue history under every handler that touches it *)
InitHistory == InitWith({ << >> }, 1..MaxMax)

NextHistory ==
    \/ clock < MaxClock /\ \E o \in BackendSample : ManualInput(Hello, o)
    \/ UpdateUi
    \/ \E value \in 1..MaxMax : ChangeMaxMessages(value)
    \/ ClearDialog

SpecHistory == InitHistory /\ [][NextHistory]_vars

(* The message queue with all its producers: a capture worker, a synthesis *)
(* worker and the UI thread                                                 *)
InitQueue == InitWith({ << Speech(Hello) >>, << NoSpeech, ServiceDown >> }, {1})

NextQueue ==
    \/ NextLoop
    \/ clock < MaxClock /\ ManualInput(Privet, "ok")
    \/ SpeakText
    \/ TtsNext
    \/ HandleMediaStatus

SpecQueue == InitQueue /\ [][NextQueue]_vars

(* One iteration of the capture loop on every answer of the microphone and *)
(* of the recognition service, and every outcome of the translation request *)
InitPipeline == InitWith({ << a >> : a \in AllAnswers }, {1})

PipelineWorkerNext(w) ==
    \/ Calibrate(w)
    \/ LoopTest(w)
    \/ Listen(w)
    \/ Recognize(w)
    \/ ProcessWith(w, BackendOutcomes)

NextPipeline ==
    \/ \E w \in Workers : PipelineWorkerNext(w)
    \/ \E w \in Workers : TimePasses(w)
    \/ ToggleRecording
    \/ JoinStopReturn
    \/ UpdateUi

SpecPipeline == InitPipeline /\ [][NextPipeline]_vars

(* One utterance with every setting of the synthesis: enable_tts,           *)
(* auto_play_tts and the key, which the user may switch while the worker    *)
(* runs                                                                     *)
Configs ==
    { [enable_tts |-> e, auto_play_tts |-> a, has_key |-> k] :
         e \in BOOLEAN, a \in BOOLEAN, k \in BOOLEAN }

InitAuto ==
    /\ ProgramInitWith({ << Speech(Hello) >>, << Speech(Privet) >>, << NoSpeech >> }, {1},
                       Configs)
    /\ call = NoCall
    /\ result = NoResult

NextAuto ==
    \/ \E w \in Workers : PipelineWorkerNext(w)
    \/ ToggleRecording
    \/ JoinStopReturn
    \/ UpdateUi
    \/ TtsNext
    \/ HandleMediaStatus
    \/ \E key \in {"enable_tts", "auto_play_tts"}, value \in BOOLEAN :
           UpdateTtsSetting(key, value)

SpecAuto == InitAuto /\ [][NextAuto]_vars

(* The functions of the program called on their own: the arguments are     *)
(* drawn in the initial state, and the call returns in one step             *)
Pieces ==
    { << "cyr_pe" >>, << "CYR_PE" >>, << "t", "h", "e" >>, << "T", "H", "E" >>,
      << "y", "o", "u" >>, << "t", "h" >>, << "e" >>, << "n_tilde" >>, << "e_acute" >>,
      << "E_ACUTE" >>, << "c_cedil" >>, << "a_uml" >>, << "U_UML" >>, << "eszett" >>,
      << "1" >>, << " " >> }

RECURSIVE TextsOf(_)
TextsOf(n) ==
    IF n = 0 THEN { NoText }
    ELSE TextsOf(n - 1) \cup { t \o p : t \in TextsOf(n - 1), p \in Pieces }

DetectCalls ==
    { [fn |-> "detect", text |-> t] :
         t \in TextsOf(MaxPieces) \cup {Hello, Privet, TheCat, Digits} }

AttributeCalls ==
    { [fn |-> "attribute", detected |-> d, lang1 |-> l1, lang2 |-> l2] :
         d \in AllLangs \cup {"it"}, l1 \in AllLangs, l2 \in AllLangs }

TranslateCalls ==
    { [fn |-> "translate", text |-> t, source |-> src, target |-> tgt, outcome |-> o] :
         t \in {NoText, Hello, Privet, TheCat}, src \in {"ru", "en", "es"},
         tgt \in {"ru", "en", "es"}, o \in BackendOutcomes }

RecognizeCalls ==
    { [fn |-> "recognize", audio |-> a, lang1 |-> l1, lang2 |-> l2] :
         a \in AllAnswers \ {Silence, CaptureError}, l1 \in Langs, l2 \in Langs }

InitCalls ==
    /\ ProgramInit({ << >> }, {1})
    /\ call \in DetectCalls \cup AttributeCalls \cup TranslateCalls \cup RecognizeCalls
    /\ result = NoResult

program_vars ==
    << flag_vars, ui_pc, loop_vars, lang_vars, message_queue, pending, history_vars,
       max_messages, clock, feed_vars, pauses, tts_vars >>

Gives(val) ==
    /\ ~result.done
    /\ result' = val
    /\ UNCHANGED << call, program_vars >>

DetectCall ==
    /\ call.fn = "detect"
    /\ Gives([done |-> TRUE, val |-> DetectLanguageFromText(call.text)])

AttributeCall ==
    /\ call.fn = "attribute"
    /\ Gives([done |-> TRUE, val |-> Attribute(call.detected, call.lang1, call.lang2)])

TranslateCall ==
    /\ call.fn = "translate"
    /\ Gives([done |-> TRUE,
                 val |-> TranslateWithGoogleApi(call.text, call.source, call.target,
                                                call.outcome),
                 requests |-> TranslateRequests(call.text, call.source, call.target)])

RecognizeCall ==
    /\ call.fn = "recognize"
    /\ Gives([done |-> TRUE, val |-> RecognizeAudio(call.audio, call.lang1, call.lang2)])

NextCalls ==
    \/ DetectCall
    \/ AttributeCall
    \/ TranslateCall
    \/ RecognizeCall

SpecCalls == InitCalls /\ [][NextCalls]_vars

----------------------------------------------------------------------------
(* The synthesis providers (ElevenLabsProvider, GoogleCloudProvider) and    *)
(* TTSService: one invocation of speak.  `call` holds the provider, its     *)
(* api_key, the arguments of speak and what the vendor will answer;         *)
(* `result` holds where the invocation is and what it has done so far.      *)

Variants == {"elevenlabs", "google_cloud", "tts_service"}

(* API keys, as their characters *)
NoKey == << >>
BlankKey == << " " >>
PlainKey == << "a", "b", "c" >>
ElevenLabsKey == << "s", "k", "_", "a" >>
PaddedKey == << " ", "s", "k", "_", "a" >>
GoogleKey == << "A", "I", "z", "a" >>
Keys == {NoKey, BlankKey, PlainKey, ElevenLabsKey, PaddedKey, GoogleKey}

(* str.strip() and str.startswith() *)
RECURSIVE LStrip(_)
LStrip(s) == IF s # << >> /\ Head(s) = " " THEN LStrip(Tail(s)) ELSE s

RECURSIVE RStrip(_)
RStrip(s) ==
    IF s # << >> /\ s[Len(s)] = " " THEN RStrip(SubSeq(s, 1, Len(s) - 1)) ELSE s

Strip(s) == RStrip(LStrip(s))

StartsWith(s, prefix) == Len(s) >= Len(prefix) /\ SubSeq(s, 1, Len(prefix)) = prefix

KeyPrefix == << "s", "k", "_" >>

(* Voices: an ElevenLabs voice is its id, a Google Cloud voice is its name  *)
(* split at the hyphens (ru-RU-Standard-A); no voice is None                *)
NoVoice == << >>
Roger == << "CwhRBWXzGAHq8TQ4Fs17" >>
OtherVoice == << "pNInz6obpgDQGcFmaJgB" >>
RussianStandardA == << "ru", "RU", "Standard", "A" >>
EnglishStandardB == << "en", "US", "Standard", "B" >>

(* app.config.TTS_VOICES *)
TTS_VOICES ==
    [l \in AllLangs |->
        CASE l = "ru" -> << "IKne3meq5aSn9XLyUdCD" >>
          [] l = "en" -> << "CwhRBWXzGAHq8TQ4Fs17" >>
          [] l = "es" -> << "MF3mGyEYCl7XYWbV9V6O" >>
          [] l = "fr" -> << "N2lVS1w4EtoT3dr4eOWO" >>
          [] OTHER -> << "ThT5KcBeYPX3keUQqHPh" >>]

(* get_voice_for_language: TTS_VOICES.get(lang, self.default_voice_id) *)
GetVoiceForLanguage(lang, default) ==
    IF lang \in DOMAIN TTS_VOICES THEN TTS_VOICES[lang] ELSE default

(* The voice speak hands to its worker, in each provider *)
ElevenLabsVoice(lang, voice, default) ==
    IF voice # NoVoice THEN voice ELSE GetVoiceForLanguage(lang, default)

GoogleCloudVoice(lang, voice, default) == IF voice # NoVoice THEN voice ELSE default

TtsServiceVoice(lang, voice, default) == GetVoiceForLanguage(lang, default)

SelectVoice(variant, lang, voice, default) ==
    CASE variant = "elevenlabs" -> ElevenLabsVoice(lang, voice, default)
      [] variant = "google_cloud" -> GoogleCloudVoice(lang, voice, default)
      [] OTHER -> TtsServiceVoice(lang, voice, default)

(* What the vendor answers to requests.post: a status (200 with audio, 200  *)
(* without, 200 with audio that cannot be written to the temporary file),   *)
(* or an exception of requests                                              *)
Responses ==
    {"200", "200_empty", "200_ioerror", "401", "402", "403", "422", "429", "500",
     "timeout", "network"}

(* The branch of _tts_worker that handles the answer, in each provider:    *)
(* "success", or the error message it reports                               *)
ElevenLabsKind(response) ==
    CASE response = "200" -> "success"
      [] response = "200_empty" -> "empty"
      [] response = "401" -> "auth"
      [] response = "402" -> "quota"
      [] response \in {"200_ioerror", "timeout", "network"} -> "exception"
      [] OTHER -> "service"

GoogleCloudKind(response) ==
    CASE response = "200" -> "success"
      [] response = "200_empty" -> "empty"
      [] response = "403" -> "permission"
      [] response = "401" -> "auth"
      [] response \in {"200_ioerror", "timeout", "network"} -> "exception"
      [] OTHER -> "service"

TtsServiceKind(response) ==
    CASE response = "timeout" -> "timeout"
      [] response = "network" -> "network"
      [] response = "200" -> "success"
      [] response = "200_empty" -> "empty"
      [] response = "200_ioerror" -> "exception"
      [] response = "401" -> "auth"
      [] response = "402" -> "quota"
      [] response = "422" -> "validation"
      [] response = "429" -> "rate"
      [] OTHER -> "service"

KindOf(variant, response) ==
    CASE variant = "elevenlabs" -> ElevenLabsKind(response)
      [] variant = "google_cloud" -> GoogleCloudKind(response)
      [] OTHER -> TtsServiceKind(response)

(* A worker that calls the callback whatever the answer is *)
CallbackCalls_Always(kind, given) == 1

(* `if callback: callback(temp_file)`, in the branch of success only *)
CallbackCalls(kind, given) == IF kind = "success" /\ given THEN 1 ELSE 0

(* The checks of the key the worker makes before its request: "ok", or the  *)
(* error it reports.  The worker of GoogleCloudProvider makes none.         *)
PrefixCheck(key) ==
    IF Strip(key) = << >> THEN "nokey"
    ELSE IF ~StartsWith(Strip(key), KeyPrefix) THEN "badformat"
    ELSE "ok"

WorkerKeyCheck(variant, key) == IF variant = "google_cloud" THEN "ok" ELSE PrefixCheck(key)

TtsEvent(type, kind) == [type |-> type, kind |-> kind]

Idle == [done |-> FALSE]

Invocation(state, voice, requests, callbacks, events) ==
    [done |-> TRUE, state |-> state, voice |-> voice, requests |-> requests,
     callbacks |-> callbacks, events |-> events]

SpeakCalls ==
    { [fn |-> "speak", variant |-> v, key |-> k, text |-> t, lang |-> l, voice |-> vo,
       default |-> d, response |-> r, callback |-> cb] :
         v \in Variants, k \in Keys, t \in {Hello, << " " >>}, l \in {"ru", "en", "it"},
         vo \in {NoVoice, OtherVoice, EnglishStandardB},
         d \in {Roger, OtherVoice, RussianStandardA}, r \in Responses, cb \in BOOLEAN }

(* The calls a caller can make: voices are those of the vendor, and         *)
(* TTSService.speak takes no voice                                          *)
WellTyped(c) ==
    CASE c.variant = "google_cloud" ->
             c.voice \in {NoVoice, EnglishStandardB} /\ c.default = RussianStandardA
      [] c.variant = "elevenlabs" ->
             c.voice \in {NoVoice, OtherVoice} /\ c.default \in {Roger, OtherVoice}
      [] OTHER -> c.voice = NoVoice /\ c.default \in {Roger, OtherVoice}

InitSpeak ==
    /\ ProgramInit({ << >> }, {1})
    /\ call \in { c \in SpeakCalls : WellTyped(c) }
    /\ result = Idle

(* speak: the tests of the text and of the key, the choice of the voice,    *)
(* threading.Thread(...).start(), and the return to the caller              *)
SpeakCall ==
    /\ call.fn = "speak"
    /\ result = Idle
    /\ result' =
          IF Strip(call.text) = << >>
          THEN Invocation("ignored", NoVoice, 0, 0, << >>)
          ELSE IF call.key = NoKey
          THEN Invocation("failed", NoVoice, 0, 0, << TtsEvent("error", "nokey") >>)
          ELSE Invocation("started",
                          SelectVoice(call.variant, call.lang, call.voice, call.default),
                          0, 0, << >>)
    /\ UNCHANGED << call, program_vars >>

(* _tts_worker up to requests.post: the status event, the checks of the key *)
WorkerBegins ==
    /\ call.fn = "speak"
    /\ result.done /\ result.state = "started"
    /\ LET check == WorkerKeyCheck(call.variant, call.key)
           events == Append(result.events, TtsEvent("status", "speaking"))
       IN  result' =
             IF check = "ok"
             THEN [result EXCEPT !.state = "posted", !.requests = @ + 1, !.events = events]
             ELSE [result EXCEPT !.state = "failed",
                                 !.events = Append(events, TtsEvent("error", check))]
    /\ UNCHANGED << call, program_vars >>

(* requests.post returns or raises, and the worker handles it *)
WorkerEnds ==
    /\ call.fn = "speak"
    /\ result.done /\ result.state = "posted"
    /\ LET kind == KindOf(call.variant, call.response)
       IN  result' =
             [result EXCEPT
                !.state = IF kind = "success" THEN "succeeded" ELSE "failed",
                !.callbacks = @ + CallbackCalls(kind, call.callback),
                !.events = Append(@, IF kind = "success" THEN TtsEvent("info", "spoken")
                                     ELSE TtsEvent("error", kind))]
    /\ UNCHANGED << call, program_vars >>

NextSpeak ==
    \/ SpeakCall
    \/ WorkerBegins
    \/ WorkerEnds

SpecSpeak == InitSpeak /\ [][NextSpeak]_vars

(* A worker thread that is started runs: every step it can take is taken *)
FairSpeak == SpecSpeak /\ WF_vars(WorkerBegins) /\ WF_vars(WorkerEnds)

----------------------------------------------------------------------------
(* The error counter of the capture loop *)

Captured(a) == a.listen = "audio"

Succeeds(a) == Captured(a) /\ a.auto = "ok"

FailedRun(k) == Len(fed) >= k /\ \A i \in 1..k : fed[i] = NoSpeech

(* C1: when the first 5 iterations of a worker each capture a buffer and   *)
(* end with NoSpeechDetected, the worker has made exactly one recovery      *)
(* pause, and its counter is back at 0, when it is at its 6th listen call.  *)
C1_OnePauseAfterFiveFailures ==
    \A w \in Workers :
        (FailedRun(5) /\ Len(fed) = 5 /\ pc[w] = "listen")
            => (pauses = 1 /\ consecutive_errors[w] = 0)

(* C2: when 4 iterations ending with NoSpeechDetected are followed by one   *)
(* whose recognition succeeds, the counter is 0 after that iteration and    *)
(* no recovery pause has been made in the 5 iterations.                     *)
C2_SuccessResetsWithoutPause ==
    \A w \in Workers :
        (FailedRun(4) /\ Len(fed) = 5 /\ Succeeds(fed[5]) /\ pc[w] \in {"loop", "done"})
            => (consecutive_errors[w] = 0 /\ pauses = 0)

C2_Witness ==
    \E w \in Workers :
        /\ FailedRun(4) /\ Len(fed) = 5 /\ Succeeds(fed[5])
        /\ pc[w] = "loop"
        /\ recording_thread = w
        /\ consecutive_errors[w] = 0
        /\ pauses = 0

----------------------------------------------------------------------------
(* One capture worker at a time *)

LoopStates == {"loop", "listen", "recognize", "process"}

(* C3: at most one worker executes the capture loop at any time, and a      *)
(* worker that start_recording_thread has signalled and replaced by a new   *)
(* thread never begins another iteration: at its loop test it ends.         *)
C3_OneWorkerAtATime ==
    [][ /\ Cardinality({ w \in Workers : pc'[w] \in LoopStates }) <= 1
        /\ \A w \in Workers :
               (w # recording_thread /\ pc[w] = "loop" /\ pc'[w] # "loop")
                   => pc'[w] = "done" ]_vars

----------------------------------------------------------------------------
(* The dialogue history *)

Stored == Len(dialogue_history)

C5_HistoryWithinTwiceMax == Stored <= 2 * max_messages

----------------------------------------------------------------------------
(* The message queue *)

From(p) == SelectSeq(message_queue, LAMBDA e : e.src = p)

(* C6: the events of each producer that are still to be consumed are in the *)
(* queue exactly once and in the order the producer put them, and update_ui *)
(* takes the oldest of them first.                                          *)
C6_ProducerFifo ==
    /\ \A p \in Producers : From(p) = pending[p]
    /\ message_queue # << >> =>
           QueueHead(message_queue) = Head(pending[QueueHead(message_queue).src])

C6_Witness ==
    /\ Len(From(UiThread)) >= 1
    /\ Len(From(TtsThread)) >= 1
    /\ \E w \in Workers : Len(From(w)) >= 2
    /\ Len(inserted) >= 2

----------------------------------------------------------------------------
(* Who writes the shared state *)

(* C7: a step of a capture worker or of a synthesis worker changes no       *)
(* shared state but the message queue: the history, the statistics, the     *)
(* recording flag, the configuration and the playback state stay as they    *)
(* are.                                                                     *)
C7_WorkersOnlyPutEvents ==
    [][ ((\E w \in Workers : WorkerNext(w)) \/ TtsNext)
            => UNCHANGED << dialogue_history, speaker_stats, is_recording, max_messages,
                            is_playing_tts, current_tts_file >> ]_vars

----------------------------------------------------------------------------
(* What a running worker sees of the settings *)

Pair == << lang1_combo, lang2_combo >>

(* C8: the language pair a worker reads for recognition is the pair that    *)
(* was selected when it was started, and attribution reads the same pair as *)
(* recognition did.                                                         *)
C8_StartSnapshotUsed ==
    [][ \A w \in Workers :
          /\ (pc[w] = "recognize" /\ pc'[w] # "recognize") => rec_langs'[w] = start_langs[w]
          /\ (pc[w] = "process" /\ pc'[w] # "process") => Pair = rec_langs[w] ]_vars

----------------------------------------------------------------------------
(* The end of the capture loop *)

(* C9: an iteration that ran with the elapsed time above record_duration is *)
(* the last one: whatever its outcome, the worker begins no iteration after *)
(* it.                                                                      *)
C9_OverdueIterationIsLast ==
    [][ \A w \in Workers :
          (pc[w] = "loop" /\ pc'[w] = "listen") => ~elapsed_over[w] ]_vars

Stopped(w) == pc[w] \in {"idle", "done"}

(* C10: while the stop event is set a worker begins no listen call; it goes *)
(* on through the calls of the iteration in flight, and unless a new start  *)
(* clears the event it reaches Stopped.                                     *)
C10_CooperativeStop ==
    /\ [][ \A w \in Workers :
             (should_stop_recording /\ pc[w] # "listen") => pc'[w] # "listen" ]_vars
    /\ \A w \in Workers :
         (should_stop_recording /\ ~Stopped(w)) ~> (~should_stop_recording \/ Stopped(w))

C10_Witness ==
    \E w \in Workers :
        /\ should_stop_recording
        /\ ~is_recording
        /\ ui_pc = "join_stop"
        /\ pc[w] = "process"

----------------------------------------------------------------------------
(* Failures inside an iteration of the capture loop *)

(* The events worker w puts in a step *)
NewEvents(w) == SubSeq(pending'[w], Len(pending[w]) + 1, Len(pending'[w]))

ErrorEvents(w) == SelectSeq(NewEvents(w), LAMBDA e : e.type = "error")

MessageEvents(w) == SelectSeq(NewEvents(w), LAMBDA e : e.type = "message")

(* The step in which the listen call of w ends with `outcome` *)
ListenEnds(w, outcome) ==
    pc[w] = "listen" /\ pc'[w] # "listen" /\ NextAnswer.listen = outcome

(* The step in which recognize_audio, called by w, raises `raised` *)
RecognizeRaises(w, raised) ==
    /\ pc[w] = "recognize" /\ pc'[w] # "recognize"
    /\ RecognizeAudio(audio[w], lang1_combo, lang2_combo).result = raised

(* C11: an exception raised by the listen call (other than its timeout) or *)
(* by recognition ends the iteration with an error event put on the queue   *)
(* and the worker back at the loop test; a failure of the calibration ends  *)
(* the worker with exactly one error event and the recording flag false.    *)
C11_FailuresReportedLoopContinues ==
    [][ \A w \in Workers :
          /\ (ListenEnds(w, "error") \/ (\E r \in {"nomatch", "reqerr", "crash"} :
                                              RecognizeRaises(w, r)))
                => (pc'[w] = "loop" /\ Len(ErrorEvents(w)) >= 1)
          /\ (pc[w] = "start" /\ pc'[w] = "done")
                => (Len(ErrorEvents(w)) = 1 /\ ~is_recording') ]_vars

(* C12: an iteration that ends in NoSpeechDetected, in a capture error      *)
(* raised by the listen call or in RecognitionServiceError leaves the       *)
(* counter one higher and the worker at the loop test, and after            *)
(* RecognitionServiceError the worker has slept.                            *)
C12_FailureCountsOnce ==
    [][ \A w \in Workers :
          /\ (ListenEnds(w, "error") \/ RecognizeRaises(w, "nomatch")
                 \/ RecognizeRaises(w, "reqerr"))
                => (consecutive_errors'[w] = consecutive_errors[w] + 1 /\ pc'[w] = "loop")
          /\ RecognizeRaises(w, "reqerr") => slept'[w] >= RequestSleep ]_vars

(* C13: an iteration that ends with a listen timeout or with                *)
(* NoSpeechDetected puts no error event on the queue, and the worker is     *)
(* back at the loop test.                                                   *)
C13_ExpectedConditionsSilent ==
    [][ \A w \in Workers :
          (ListenEnds(w, "timeout") \/ RecognizeRaises(w, "nomatch"))
              => (ErrorEvents(w) = << >> /\ pc'[w] = "loop") ]_vars

----------------------------------------------------------------------------
(* Translation *)

HasReturned(fn) == call.fn = fn /\ result.done

(* C14: a call of translate with source = target returns the text itself   *)
(* and makes no request; a call with source # target makes exactly one      *)
(* request.                                                                 *)
C14_IdentityWithoutRequest ==
    HasReturned("translate") =>
        IF call.source = call.target
        THEN result.val = call.text /\ result.requests = 0
        ELSE result.requests = 1

C14_Witness ==
    /\ HasReturned("translate")
    /\ call.source = call.target
    /\ call.text = Hello
    /\ call.outcome = "timeout"
    /\ result.val = Hello
    /\ result.requests = 0

FailureOutcomes == {"timeout", "network", "http500", "badjson", "badjson_req"}

Bracketed(t) == Len(t) >= 2 /\ Head(t) = "[" /\ t[Len(t)] = "]"

(* The step in which process_recognized_text, called by w, returns *)
ProcessReturns(w) == pc[w] = "process" /\ pc'[w] # "process"

(* C15: translate_with_google_api returns whatever the backend does, and    *)
(* on a timeout, a network error, a status other than 200 or a body that    *)
(* cannot be parsed what it returns is a text in brackets; the worker puts  *)
(* exactly one message event, whose translated_text is the text returned.   *)
C15_PlaceholderInsteadOfRaise ==
    [][ \A w \in Workers :
          ProcessReturns(w) =>
              /\ translation'[w].made
              /\ translation'[w].val # Uncaught
              /\ (translation'[w].outcome \in FailureOutcomes
                    /\ translation'[w].source # translation'[w].target)
                     => Bracketed(translation'[w].val)
              /\ Len(MessageEvents(w)) = 1
              /\ MessageEvents(w)[1].msg.translated_text = translation'[w].val ]_vars

C15_Witness ==
    \E w \in Workers :
        /\ translation[w].made
        /\ translation[w].outcome = "badjson"
        /\ translation[w].val = Placeholder
        /\ \E i \in 1..Len(pending[w]) :
               /\ pending[w][i].type = "message"
               /\ pending[w][i].msg.translated_text = Placeholder

----------------------------------------------------------------------------
(* Language detection *)

RuleLang == << "ru", "en", "es", "fr", "de" >>

(* The rules of detection, read on the text in lower case *)
RuleHolds(i, t) ==
    CASE i = 1 -> \E k \in 1..Len(t) : t[k] \in Cyrillic
      [] i = 2 -> \E word \in common_english_words : Contains(t, word)
      [] i = 3 -> \E k \in 1..Len(t) : t[k] \in SpanishChars
      [] i = 4 -> \E k \in 1..Len(t) : t[k] \in FrenchChars
      [] OTHER -> \E k \in 1..Len(t) : t[k] \in GermanChars

(* C16: detect_language_from_text returns for every text the language of   *)
(* the first rule, in the order ru, en, es, fr, de, that the text in lower  *)
(* case satisfies, and none when it satisfies no rule, as "1234" does.      *)
C16_FirstRuleWins ==
    HasReturned("detect") =>
        LET satisfied == { i \in 1..5 : RuleHolds(i, TextLower(call.text)) }
        IN  /\ result.val = IF satisfied = {} THEN NoLang
                            ELSE RuleLang[CHOOSE i \in satisfied :
                                             \A k \in satisfied : i <= k]
            /\ call.text = Digits => result.val = NoLang

(* A mixed text: e with an acute accent is a Spanish and a French character *)
C16_Witness ==
    /\ HasReturned("detect")
    /\ call.text = << "c_cedil", "E_ACUTE" >>
    /\ result.val = "es"

----------------------------------------------------------------------------
(* Attribution *)

(* C17: the attribution of a detected language to the pair (lang1, lang2)   *)
(* is (Speaker 1, lang2) when it is lang1, else (Speaker 2, lang1) when it  *)
(* is lang2, else (Speaker 1, lang2) when its first two characters are      *)
(* those of lang1 and (Speaker 2, lang1) otherwise; (en, ru, en) and        *)
(* (it, ru, en) both give (Speaker 2, ru).                                  *)
C17_AttributionRule ==
    HasReturned("attribute") =>
        LET d == call.detected
            l1 == call.lang1
            l2 == call.lang2
            speaker1 == [speaker |-> "Speaker 1", target |-> l2]
            speaker2 == [speaker |-> "Speaker 2", target |-> l1]
        IN  /\ result.val =
                   IF d = l1 THEN speaker1
                   ELSE IF d = l2 THEN speaker2
                   ELSE IF FirstTwo(LangChars(d)) = FirstTwo(LangChars(l1)) THEN speaker1
                   ELSE speaker2
            /\ (d \in {"en", "it"} /\ l1 = "ru" /\ l2 = "en")
                  => result.val = [speaker |-> "Speaker 2", target |-> "ru"]

C17_Witness ==
    /\ HasReturned("attribute")
    /\ call.detected = "it" /\ call.lang1 = "ru" /\ call.lang2 = "en"
    /\ result.val = [speaker |-> "Speaker 2", target |-> "ru"]

----------------------------------------------------------------------------
(* Recognition *)

YieldsText(o) == o = "ok"

(* C18: when no attempt fails, recognition gives the text of the auto       *)
(* attempt with the language detected in it (lang1 when none is detected);  *)
(* when the auto attempt yields no text, the text of the lang1 attempt with *)
(* lang1, and when that yields no text either, the text of the lang2        *)
(* attempt with lang2; it raises NoSpeechDetected only when none of the     *)
(* three attempts yields text.                                              *)
C18_FallbackChain ==
    (HasReturned("recognize")
        /\ {call.audio.auto, call.audio.l1, call.audio.l2} \cap Raises = {})
    => LET a == call.audio
           r == result.val
           detected == IF DetectLanguageFromText(a.txt) = NoLang THEN call.lang1
                       ELSE DetectLanguageFromText(a.txt)
       IN  IF YieldsText(a.auto)
           THEN r.result = "ok" /\ r.text = a.txt /\ r.lang = detected
           ELSE IF YieldsText(a.l1)
           THEN r.result = "ok" /\ r.text = a.txt /\ r.lang = call.lang1
           ELSE IF YieldsText(a.l2)
           THEN r.result = "ok" /\ r.text = a.txt /\ r.lang = call.lang2
           ELSE r.result = "nomatch"

OutcomeOf(a, attempt) ==
    CASE attempt = "auto" -> a.auto
      [] attempt = "lang1" -> a.l1
      [] OTHER -> a.l2

(* The step in which recognize_audio, called by w, returns or raises *)
RecognizeEnds(w) == pc[w] = "recognize" /\ pc'[w] # "recognize"

(* C19: when an attempt that recognize_audio makes raises RequestError, no  *)
(* attempt is made after it, recognize_audio raises RequestError, and the   *)
(* worker puts the error event of RequestError and no message event, counts *)
(* one error and goes back to the loop test.                                *)
C19_ServiceFailurePropagates ==
    [][ \A w \in Workers :
          RecognizeEnds(w) =>
              LET r == RecognizeAudio(audio[w], lang1_combo, lang2_combo)
                  failed == { i \in 1..Len(r.tried) :
                                 OutcomeOf(audio[w], r.tried[i]) = "reqerr" }
              IN  /\ (audio[w].auto = "reqerr"
                        \/ (audio[w].auto = "nomatch" /\ audio[w].l1 = "reqerr")
                        \/ (audio[w].auto = "nomatch" /\ audio[w].l1 = "nomatch"
                              /\ audio[w].l2 = "reqerr"))
                       => failed # {}
                  /\ failed # {} =>
                       /\ failed = { Len(r.tried) }
                       /\ r.result = "reqerr"
                       /\ pc'[w] = "loop"
                       /\ MessageEvents(w) = << >>
                       /\ Len(ErrorEvents(w)) = 1
                       /\ ErrorEvents(w)[1].what = "api"
                       /\ consecutive_errors'[w] = consecutive_errors[w] + 1 ]_vars

C19_Witness ==
    \E w \in Workers :
        /\ Len(fed) = 1
        /\ fed[1].listen = "audio"
        /\ fed[1].auto = "nomatch" /\ fed[1].l1 = "reqerr" /\ fed[1].l2 = "ok"
        /\ pc[w] = "loop"
        /\ consecutive_errors[w] = 1
        /\ slept[w] = RequestSleep
        /\ \E i \in 1..Len(pending[w]) :
               pending[w][i].type = "error" /\ pending[w][i].what = "api"
        /\ \A i \in 1..Len(pending[w]) : pending[w][i].type # "message"

----------------------------------------------------------------------------
(* The message of an utterance *)

(* C20: for a recognized text the worker puts exactly one message event,    *)
(* in the step that processes it: its language is the detected language,    *)
(* its original_text the recognized text, its speaker the one attribution   *)
(* gives, and its translated_text what the translation of the text from     *)
(* the detected language to the target of attribution returned.  "hello"    *)
(* detected as en with the pair (ru, en) gives Speaker 2 and the            *)
(* translation call ("hello", en, ru).  A recognition that gives no text    *)
(* puts no message event.                                                   *)
C20_OneMessagePerUtterance ==
    [][ \A w \in Workers :
          /\ RecognizeEnds(w) => MessageEvents(w) = << >>
          /\ ProcessReturns(w) =>
                LET a == Attribute(detected_lang[w], lang1_combo, lang2_combo)
                    tr == translation'[w]
                IN  /\ Len(MessageEvents(w)) = 1
                    /\ MessageEvents(w)[1].msg.language = detected_lang[w]
                    /\ MessageEvents(w)[1].msg.original_text = text[w]
                    /\ MessageEvents(w)[1].msg.speaker = a.speaker
                    /\ MessageEvents(w)[1].msg.translated_text = tr.val
                    /\ tr.text = text[w] /\ tr.source = detected_lang[w]
                    /\ tr.target = a.target
                    /\ (text[w] = Hello /\ detected_lang[w] = "en" /\ Pair = << "ru", "en" >>)
                          => (a.speaker = "Speaker 2" /\ tr.target = "ru") ]_vars

C20_Witness ==
    \E w \in Workers :
        /\ translation[w].made
        /\ translation[w].text = Hello
        /\ translation[w].source = "en"
        /\ translation[w].target = "ru"
        /\ Len(SelectSeq(pending[w], LAMBDA e : e.type = "message")) = 1
        /\ \E i \in 1..Len(pending[w]) :
               /\ pending[w][i].type = "message"
               /\ pending[w][i].msg.speaker = "Speaker 2"
               /\ pending[w][i].msg.language = "en"
               /\ pending[w][i].msg.original_text = Hello

----------------------------------------------------------------------------
(* C21: for every synthesis provider, speak called with a credential that   *)
(* is missing (none, or only blanks) or malformed for the vendor (without   *)
(* the prefix the vendor requires) makes no network request and reports an  *)
(* error of authentication or configuration.                                *)

Refused(variant, key) ==
    \/ Strip(key) = << >>
    \/ variant # "google_cloud" /\ ~StartsWith(Strip(key), KeyPrefix)

Terminal == {"succeeded", "failed", "ignored"}

ErrorsReported == SelectSeq(result.events, LAMBDA e : e.type = "error")

C21_BadCredentialMakesNoRequest ==
    (call.fn = "speak" /\ result.done /\ Strip(call.text) # << >>
        /\ Refused(call.variant, call.key))
    => /\ result.requests = 0
       /\ result.state \in Terminal
            => \E i \in 1..Len(ErrorsReported) :
                   ErrorsReported[i].kind \in {"nokey", "badformat"}

----------------------------------------------------------------------------
(* C22: one invocation of speak with a text that is not blank goes from     *)
(* idle to requesting to one terminal outcome, succeeded or failed.  speak  *)
(* returns before any request is made; the worker makes at most one         *)
(* request; a terminal outcome, once reached, never changes; the callback   *)
(* is called once when the outcome is success and the caller gave one, and  *)
(* never when it is failure.  A started worker reaches a terminal outcome.  *)

Spoken == call.fn = "speak" /\ Strip(call.text) # << >>

Requesting == {"started", "posted"}

SpeakTransitions ==
    {<< "started", "posted" >>, << "started", "failed" >>,
     << "posted", "succeeded" >>, << "posted", "failed" >>}

C22_SpeakReturnsAtOnce ==
    [][(Spoken /\ ~result.done)
          => /\ result'.done
             /\ result'.requests = 0 /\ result'.callbacks = 0
             /\ result'.state \in {"started", "failed"}]_vars

C22_OneRequestOneOutcome ==
    Spoken /\ result.done
    => /\ result.state \in Requesting \cup {"succeeded", "failed"}
       /\ result.requests <= 1
       /\ result.state = "started" => result.requests = 0
       /\ result.state \in {"posted", "succeeded"} => result.requests = 1
       /\ result.callbacks =
            IF result.state = "succeeded" /\ call.callback THEN 1 ELSE 0

C22_OutcomeIsFinal ==
    [][(Spoken /\ result.done)
          => /\ result.state \in Terminal => result' = result
             /\ result' # result => << result.state, result'.state >> \in SpeakTransitions]_vars

C22_WorkerFinishes ==
    (Spoken /\ result.done) ~> (result.done /\ result.state \in {"succeeded", "failed"})

C22_SpeakStateMachine ==
    /\ C22_SpeakReturnsAtOnce
    /\ []C22_OneRequestOneOutcome
    /\ C22_OutcomeIsFinal
    /\ C22_WorkerFinishes

(* a synthesis that succeeded after one request, its callback called once *)
C22_Witness ==
    /\ Spoken /\ result.done
    /\ result.state = "succeeded" /\ result.requests = 1 /\ result.callbacks = 1

(* ... and one that failed after its request, its callback never called *)
C22_WitnessFailed ==
    /\ Spoken /\ result.done /\ call.callback
    /\ result.state = "failed" /\ result.requests = 1 /\ result.callbacks = 0

----------------------------------------------------------------------------
(* C23: the failure a provider reports is the kind fixed by the answer to   *)
(* its request: 401 authentication, 402 quota, 403 authentication or        *)
(* permission, 422 validation, 429 rate limit, any other status that is not *)
(* 2xx service, a timeout of the connection timeout, 200 with an empty body *)
(* empty response; every provider reports each kind apart from the others.  *)

C23_Canonical(response) ==
    CASE response = "401" -> {"auth"}
      [] response = "402" -> {"quota"}
      [] response = "403" -> {"auth", "permission"}
      [] response = "422" -> {"validation"}
      [] response = "429" -> {"rate"}
      [] response = "500" -> {"service"}
      [] response = "timeout" -> {"timeout"}
      [] response = "200_empty" -> {"empty"}
      [] OTHER -> {}

C23_Classified == {"401", "402", "403", "422", "429", "500", "timeout", "200_empty"}

Answered == Spoken /\ result.done /\ result.requests = 1 /\ result.state \in Terminal

C23_CanonicalFailureKind ==
    (Answered /\ call.response \in C23_Classified)
    => /\ result.state = "failed"
       /\ ErrorsReported # << >>
       /\ ErrorsReported[Len(ErrorsReported)].kind \in C23_Canonical(call.response)

----------------------------------------------------------------------------
(* C24: the voice speak selects, in every provider: a voice the caller      *)
(* supplies is used as it is; without one, the voice is the vendor's        *)
(* default voice for the source language, for each language the             *)
(* application has default voices for (the keys of TTS_VOICES); for any     *)
(* other language it is the configured default voice.                       *)

(* The language a Google Cloud voice speaks is the head of its name, as the *)
(* worker reads it for the languageCode of its request                      *)
VoiceLanguage(voice_name) == voice_name[1]

VoiceIsFor(variant, voice, lang) ==
    IF variant = "google_cloud" THEN VoiceLanguage(voice) = lang
    ELSE voice = TTS_VOICES[lang]

C24_VoiceSelection ==
    (Spoken /\ result.done /\ result.state = "started")
    => IF call.voice # NoVoice THEN result.voice = call.voice
       ELSE IF call.lang \in DOMAIN TTS_VOICES
            THEN VoiceIsFor(call.variant, result.voice, call.lang)
            ELSE result.voice = call.default

----------------------------------------------------------------------------
(* C25: every message of the history has a speaker among Speaker 1,         *)
(* Speaker 2 and System, a language that is a two-letter code, an original  *)
(* text that is not empty and a confidence from 0 to 1 (0 to 100 here, in   *)
(* hundredths); a message is never changed once it is in the history.       *)

Speakers == {"Speaker 1", "Speaker 2", "System"}

TwoLetter(code) == Len(LangChars(code)) = 2

WellFormed(msg) ==
    /\ msg.speaker \in Speakers
    /\ TwoLetter(msg.language)
    /\ msg.original_text # << >>
    /\ msg.confidence \in 0..100

C25_MessagesWellFormed ==
    \A i \in 1..Len(dialogue_history) : WellFormed(dialogue_history[i])

----------------------------------------------------------------------------
(* C26: the chat view never holds more than max_messages message widgets,   *)
(* after every display_message and every change_max_messages, and the       *)
(* widgets it holds are the most recent messages shown, in their order: the *)
(* widgets removed are the oldest.                                          *)

C26_ViewWithinMax ==
    /\ Len(chat_layout) <= max_messages
    /\ Len(chat_layout) <= Len(inserted)
    /\ chat_layout = SubSeq(inserted, Len(inserted) - Len(chat_layout) + 1, Len(inserted))

(* the view is full and older messages have been removed from it *)
C26_Witness ==
    /\ Len(chat_layout) = max_messages
    /\ Len(inserted) > max_messages
    /\ inserted[1] # chat_layout[1]

----------------------------------------------------------------------------
(* C30: the counts of speaker_stats add up to the number of messages of the *)
(* two speakers displayed since the last clear_dialog (or since the start), *)
(* speaker by speaker: removing old messages from the history or the view   *)
(* never lowers a count, a system message never raises one, and only        *)
(* clear_dialog sets them back to 0.                                        *)

DisplayedBy(speaker) == Len(SelectSeq(inserted, LAMBDA m : m.speaker = speaker))

TotalCounted == speaker_stats["Speaker 1"] + speaker_stats["Speaker 2"]

C30_CountsMatchDisplayed ==
    /\ \A speaker \in DOMAIN speaker_stats : speaker_stats[speaker] = DisplayedBy(speaker)
    /\ TotalCounted = Len(inserted) - DisplayedBy("System")

C30_OnlyClearResets ==
    [][\A speaker \in DOMAIN speaker_stats :
          speaker_stats'[speaker] < speaker_stats[speaker]
          => /\ speaker_stats' = NoStats
             /\ inserted' = << SystemMessage(InstructionText, clock') >>]_vars

C30_StatsCountDisplayed == []C30_CountsMatchDisplayed /\ C30_OnlyClearResets

(* two messages counted, the older ones already removed from the view *)
C30_Witness ==
    /\ TotalCounted >= 2
    /\ Len(chat_layout) < Len(inserted)
    /\ DisplayedBy("System") >= 1

----------------------------------------------------------------------------
(* C29: with the two-letter codes the application offers (ru, en, es, fr,   *)
(* de) for lang1 and lang2, the speaker is Speaker 1 exactly when the       *)
(* detected language is lang1; a detected language that is neither lang1    *)
(* nor lang2 gives (Speaker 2, lang1); and the target is lang2 when the     *)
(* speaker is Speaker 1 and lang1 otherwise.                                *)
C29_SpeakerOneIffLang1 ==
    (HasReturned("attribute") /\ call.lang1 \in AllLangs /\ call.lang2 \in AllLangs
        /\ TwoLetter(call.detected))
    => /\ result.val.speaker \in {"Speaker 1", "Speaker 2"}
       /\ result.val.speaker = "Speaker 1" <=> call.detected = call.lang1
       /\ call.detected \notin {call.lang1, call.lang2}
            => result.val = [speaker |-> "Speaker 2", target |-> call.lang1]
       /\ result.val.target =
            IF result.val.speaker = "Speaker 1" THEN call.lang2 ELSE call.lang1

(* a detected language of neither side, given to the second speaker *)
C29_Witness ==
    /\ HasReturned("attribute")
    /\ call.detected = "fr" /\ call.lang1 = "es" /\ call.lang2 = "de"
    /\ result.val = [speaker |-> "Speaker 2", target |-> "es"]

----------------------------------------------------------------------------
(* C27: in recording_worker the counter of consecutive errors is set to 0   *)
(* each time listen returns a buffer, before that buffer is recognized, and *)
(* a listen call that fails leaves the counter as it is; so, whatever the   *)
(* microphone and the recognition service answer, the counter is 0 or 1     *)
(* each time an iteration has ended.                                        *)

C27_CounterAtBoundary ==
    \A w \in Workers : pc[w] \in {"loop", "done"} => consecutive_errors[w] \in {0, 1}

C27_ListenSetsCounter ==
    [][\A w \in Workers :
          /\ ListenEnds(w, "audio")
               => consecutive_errors'[w] = 0 /\ pc'[w] = "recognize"
          /\ (ListenEnds(w, "timeout") \/ ListenEnds(w, "error"))
               => consecutive_errors'[w] = consecutive_errors[w] /\ pc'[w] = "loop"]_vars

C27_WitnessKept ==
    \E w \in Workers :
        /\ fed = << NoSpeech, Silence >>
        /\ pc[w] = "loop"
        /\ consecutive_errors[w] = 1

----------------------------------------------------------------------------
(* C28: process_recognized_text calls speak_text for an utterance exactly   *)
(* when enable_tts and auto_play_tts are both on as the utterance is        *)
(* processed and its message event has been put; the call is made with the  *)
(* translated text and the target language; it comes after the put of the   *)
(* message event, so every event of that synthesis (the error of a missing  *)
(* key, the status, error and info events of the synthesis worker) is in    *)
(* the queue behind the message event of the utterance.                     *)

SynthesisEvent(e) == e.src = TtsThread \/ (e.type = "error" /\ e.what = "nokey")

C28_SpeakTextCalled ==
    [][/\ \A w \in Workers :
            ProcessReturns(w) =>
                LET called == Len(auto_spoken') = Len(auto_spoken) + 1
                    new == NewEvents(w)
                IN  /\ called <=> /\ config.enable_tts /\ config.auto_play_tts
                                  /\ MessageEvents(w) # << >>
                    /\ ~called => auto_spoken' = auto_spoken /\ tts_pc' = tts_pc
                    /\ called =>
                         LET c == auto_spoken'[Len(auto_spoken')]
                             m == MessageEvents(w)[1].msg
                         IN  /\ c.text = m.translated_text
                             /\ c.lang = translation'[w].target
                             /\ c.lang = IF m.speaker = "Speaker 1" THEN lang2_combo
                                         ELSE lang1_combo
                    /\ \A i, j \in 1..Len(new) :
                           (new[i].type = "message" /\ SynthesisEvent(new[j])) => i < j
       /\ (\A w \in Workers : ~ProcessReturns(w))
             => /\ auto_spoken' = auto_spoken
                /\ tts_pc' = "start" => tts_pc = "start"]_vars

C28_EventsBehindMessage ==
    /\ (tts_pc # "idle" \/ \E i \in 1..Len(message_queue) : SynthesisEvent(message_queue[i]))
          => auto_spoken # << >>
    /\ \A i, j \in 1..Len(message_queue) :
           (message_queue[i].type = "message" /\ SynthesisEvent(message_queue[j])) => i < j

C28_AutoSpeakAfterMessage == C28_SpeakTextCalled /\ []C28_EventsBehindMessage

(* the message event of the utterance is in the queue, the events of its    *)
(* synthesis behind it                                                      *)
C28_Witness ==
    /\ auto_spoken # << >>
    /\ \E i, j \in 1..Len(message_queue) :
           /\ i < j
           /\ message_queue[i].type = "message"
           /\ message_queue[i].msg.translated_text = auto_spoken[1].text
           /\ message_queue[j].src = TtsThread

(* ... and an utterance processed with auto_play_tts off, that is not spoken *)
C28_WitnessSilent ==
    /\ auto_spoken = << >>
    /\ ~config.auto_play_tts /\ config.enable_tts
    /\ \E i \in 1..Len(message_queue) : message_queue[i].type = "message"

====
